---- MODULE Spec2Model ----
(***************************************************************************)
(* A model of src/app.py, the Streamlit script of the Y4J input app.       *)
(*                                                                         *)
(* Streamlit runs the whole script top to bottom once per page load and    *)
(* once per widget event.  One script run is one action here, except that  *)
(* a submission is cut at its network calls (the refresh of the production *)
(* credentials and the Drive create-file call of each artifact), because   *)
(* Streamlit runs every browser session's script in a thread of its own    *)
(* and the sessions' uploads interleave at those calls.                    *)
(*                                                                         *)
(* Library behaviour the script relies on, taken from the libraries'       *)
(* documentation:                                                          *)
(*  - st.session_state lives as long as the session; a page load opens a   *)
(*    new session (empty st.session_state); st.user is read from the       *)
(*    identity cookie, which outlives the session;                         *)
(*  - st.login() and st.logout() set / delete the identity cookie and      *)
(*    send the browser back to the app's home page, which "creates a new   *)
(*    session";                                                            *)
(*  - st.query_params.clear() rewrites the URL with a new history entry,   *)
(*    so the browser's Back button brings the callback URL (with its       *)
(*    code) back without a page load;                                      *)
(*  - google.oauth2.credentials.Credentials.valid is "has a token and is   *)
(*    not expired";                                                        *)
(*  - google_auth_oauthlib's Flow adds a PKCE code challenge to the        *)
(*    authorization URL when its autogenerate_code_verifier is true; the   *)
(*    script does not pass that argument, and the library's releases       *)
(*    differ in its default, so the default is a choice of the build.      *)
(***************************************************************************)
EXTENDS FiniteSets, Integers, Sequences, TLC

(* --------------------------- input domains ---------------------------- *)

\* The browser sessions the server holds.
Sessions == {"s1", "s2"}

\* Authorization codes the provider may put in the callback URL.
Codes == {"c1", "c2"}

None == "none"

\* What flow.fetch_token, creds.refresh and files().create().execute() raise.
ExchangeErrors == {"invalid_grant"}
RefreshErrors == {"RefreshError"}
CreateErrors == {"HttpError"}

Titles == {"", "Budget Q1"}

\* two of the options of the selectbox of line 167
Categories == {"Finance", "Other"}

\* st.date_input gives a date; the f-strings of lines 184 and 191 put its
\* str(), the ISO text, in the file name: a date is kept as that text
Dates == {"2024-01-15"}

Details == {"", "initial draft"}

\* what st.file_uploader gives: the browser's file name and mime type
Files == {[name |-> "report.pdf", type |-> "application/pdf"],
          [name |-> "scan.png", type |-> "image/png"]}

NoFile == [name |-> None, type |-> None]

VARIABLES
    query_params,    \* [s]: st.query_params["code"], None when the URL has no code
    session_state,   \* [s]: st.session_state, a dict: key -> value
    is_logged_in,    \* [s]: st.user.is_logged_in
    pc,              \* [s]: where the session's script is: idle between runs
    event,           \* [s]: what started the latest run: a page load, a rerun, a button
    request,         \* [s]: the form values of the latest run
    pending,         \* [s]: the artifacts the running submission has still to upload
    creds,           \* [s]: the Credentials object the running upload holds
    calls,           \* [s]: the network calls of the latest run, in order
    messages,        \* [s]: what st.error / st.success rendered in the latest run
    uploads,         \* [s]: the arguments of the upload_to_drive calls of the latest run
    autogenerate_code_verifier  \* the installed Flow's default for that argument

vars == <<query_params, session_state, is_logged_in, pc, event, request, pending,
          creds, calls, messages, uploads, autogenerate_code_verifier>>

(* --------------------------- session state ---------------------------- *)

EmptyState == [k \in {} |-> None]

NoToken == <<>>

NoCreds == [src |-> None, token |-> NoToken, expired |-> FALSE]

\* flow.credentials after flow.fetch_token(code=code)
FlowCredentials(code) == [src |-> "auth", token |-> <<"auth", code>>, expired |-> FALSE]

\* lines 40-42: the three keys written after a successful exchange
StoreLoginNoIdentity(code) ==
    [k \in {"google_auth_code", "credentials"} |->
        IF k = "google_auth_code" THEN code ELSE FlowCredentials(code)]

StoreLogin(code) ==
    [k \in {"google_auth_code", "credentials", "user_email"} |->
        CASE k = "google_auth_code" -> code
          [] k = "credentials" -> FlowCredentials(code)
          [] OTHER -> "Logged In"]

HasKey(ss, k) == k \in DOMAIN ss

\* lines 149-158: the script shows the authenticated interface to a logged-in
\* user and the login prompt to anyone else
State(s) == IF is_logged_in[s] THEN "AUTHENTICATED" ELSE "ANONYMOUS"

(* ----------------- 2. catch the return trip (lines 28-48) -------------- *)

\* res is what flow.fetch_token does: "ok", or the exception it raises.
CallbackState(ss, q, res) ==
    IF q # None /\ res = "ok" THEN StoreLogin(q) ELSE ss

\* line 45 runs only when nothing before it in the try block raised
CallbackQuery(q, res) ==
    IF q # None /\ res = "ok" THEN None ELSE q

CallbackMessages(q, res) ==
    IF q # None /\ res # "ok" THEN {<<"Login failed", res>>} ELSE {}

\* line 57: flow.authorization_url() puts a code_challenge in the URL when
\* the Flow generates a code verifier; lines 9-24 do not say whether it does
CodeChallenge == autogenerate_code_verifier

\* lines 9 and 34: the Flow that exchanges the code is built in the run that
\* handles the redirect, and fetch_token comes before authorization_url: it
\* has no code verifier to send
CodeVerifier == None

\* what flow.fetch_token can do: the provider refuses a code issued for a
\* code_challenge when the request has no verifier
ExchangeResults ==
    IF CodeChallenge /\ CodeVerifier = None
      THEN ExchangeErrors
      ELSE {"ok"} \cup ExchangeErrors

\* A network call as the log keeps it: the operation, what it is for (the
\* code, the artifact), the credentials in hand when it is issued, its result.
Call(op, for, c, res) ==
    [op |-> op, for |-> for, src |-> c.src, token |-> c.token, res |-> res]

SessionCreds(ss) == IF HasKey(ss, "credentials") THEN ss["credentials"] ELSE NoCreds

\* line 34: one token-endpoint request whenever the URL has a code
CallbackCalls(ss, q, res) ==
    IF q # None THEN <<Call("exchange", q, SessionCreds(ss), res)>> ELSE <<>>

(* -------------------- the form and its artifacts ---------------------- *)

\* uploaded_file and camera_photo say whether the widget holds a file; file
\* is what the uploader holds
NoSubmit == [submit |-> FALSE, title |-> "", category |-> "Finance",
             entry_date |-> "2024-01-15", details |-> "",
             uploaded_file |-> FALSE, file |-> NoFile, camera_photo |-> FALSE]

Requests ==
    {r \in [submit : {TRUE}, title : Titles, category : Categories,
            entry_date : Dates, details : Details, uploaded_file : BOOLEAN,
            file : Files \cup {NoFile}, camera_photo : BOOLEAN] :
        r.uploaded_file <=> r.file # NoFile}

TitleNotChecked(req) == TRUE

\* line 179
TitleOk(req) == req.title # ""

ArtifactsPhotoFirst(req) ==
    <<"notes">> \o (IF req.camera_photo THEN <<"photo">> ELSE <<>>)
                \o (IF req.uploaded_file THEN <<"file">> ELSE <<>>)

\* lines 184-192: the uploads of one submission, in the order of the calls
Artifacts(req) ==
    <<"notes">> \o (IF req.uploaded_file THEN <<"file">> ELSE <<>>)
                \o (IF req.camera_photo THEN <<"photo">> ELSE <<>>)

NotesNameNoCategory(req) == <<req.entry_date, "_", req.title, "_notes.txt">>

\* line 184: f"{entry_date}_{category}_{info_title}_notes.txt", as its parts
NotesName(req) == <<req.entry_date, "_", req.category, "_", req.title, "_notes.txt">>

\* line 191: f"{entry_date}_{info_title}_photo.jpg"
PhotoName(req) == <<req.entry_date, "_", req.title, "_photo.jpg">>

\* lines 185, 189, 192: the arguments of the upload_to_drive call for art
UploadArgs(req, art) ==
    CASE art = "notes" ->
            [kind |-> art, file_name |-> NotesName(req),
             file_content |-> <<"utf-8", req.details>>, mime_type |-> "text/plain"]
      [] art = "file" ->
            [kind |-> art, file_name |-> <<req.file.name>>,
             file_content |-> <<"getvalue", req.file.name>>, mime_type |-> req.file.type]
      [] OTHER ->
            [kind |-> art, file_name |-> PhotoName(req),
             file_content |-> <<"getvalue", "camera_photo">>, mime_type |-> "image/jpeg"]

(* ---------------- production credentials (lines 101-118) -------------- *)

CredsSourceLogin == "auth"

\* the section of st.secrets the bundle is built from (line 104)
CredsSource == "google_auth"

\* lines 106-112: a new Credentials object with token=None
BuildCreds == [src |-> CredsSource, token |-> NoToken, expired |-> FALSE]

\* Credentials.valid
Valid(c) == c.token # NoToken /\ ~c.expired

RefreshWhenValid(c) == c.token # NoToken /\ ~c.expired

\* line 115
NeedsRefresh(c) == ~Valid(c)

RefreshedShared(c, s, art) == [c EXCEPT !.token = <<c.src>>, !.expired = FALSE]

\* creds.refresh(Request()): a new access token, named by the call that got it
Refreshed(c, s, art) == [c EXCEPT !.token = <<c.src, s, art>>, !.expired = FALSE]

FailureRetries(rest) == <<"notes">> \o rest

FailureAborts(rest) == <<>>

\* lines 142-144: the exception is caught, the caller goes on with the rest
AfterFailure(rest) == rest

Init ==
    /\ query_params = [s \in Sessions |-> None]
    /\ session_state = [s \in Sessions |-> EmptyState]
    /\ is_logged_in = [s \in Sessions |-> FALSE]
    /\ pc = [s \in Sessions |-> "idle"]
    /\ event = [s \in Sessions |-> "load"]
    /\ request = [s \in Sessions |-> NoSubmit]
    /\ pending = [s \in Sessions |-> <<>>]
    /\ creds = [s \in Sessions |-> NoCreds]
    /\ calls = [s \in Sessions |-> <<>>]
    /\ messages = [s \in Sessions |-> {}]
    /\ uploads = [s \in Sessions |-> <<>>]
    /\ autogenerate_code_verifier \in BOOLEAN

(* ------------------------- script runs -------------------------------- *)

\* A run that no button started, in a session whose st.session_state is ss0
\* and whose URL carries q0: lines 28-58, then the wall or the empty form.
ScriptRun(s, ev, ss0, q0, res) ==
    /\ pc[s] = "idle"
    /\ event' = [event EXCEPT ![s] = ev]
    /\ session_state' = [session_state EXCEPT ![s] = CallbackState(ss0, q0, res)]
    /\ query_params' = [query_params EXCEPT ![s] = CallbackQuery(q0, res)]
    /\ messages' = [messages EXCEPT ![s] = CallbackMessages(q0, res)]
    /\ request' = [request EXCEPT ![s] = NoSubmit]
    /\ calls' = [calls EXCEPT ![s] = CallbackCalls(ss0, q0, res)]
    /\ uploads' = [uploads EXCEPT ![s] = <<>>]
    /\ UNCHANGED <<is_logged_in, pc, pending, creds, autogenerate_code_verifier>>

\* The browser loads the app at a URL with or without a code (the provider's
\* redirect, a reload, a bookmark): a new session, and its first run.
PageLoad(s, q, res) == ScriptRun(s, "load", EmptyState, q, res)

\* A rerun of the running session (the Rerun command).
Rerun(s, res) == ScriptRun(s, "rerun", session_state[s], query_params[s], res)

\* The Back button after line 45 cleared the URL: the callback URL is back.
BackNavigate(s) ==
    /\ pc[s] = "idle"
    /\ query_params[s] = None
    /\ HasKey(session_state[s], "google_auth_code")
    /\ query_params' = [query_params EXCEPT ![s] = session_state[s]["google_auth_code"]]
    /\ UNCHANGED <<session_state, is_logged_in, pc, event, request, pending, creds,
                   calls, messages, uploads, autogenerate_code_verifier>>

WallOpen(s) == TRUE

\* line 150: st.user.is_logged_in lets the run past the wall
PastWall(s) == is_logged_in[s]

\* what st.login() leaves of the session: the redirect opens a new one
LoginState(ss) == EmptyState

\* lines 150-155, "Log in with Google" clicked: lines 28-58 run first, then
\* st.login(); ok is whether the user comes back with an identity cookie.
ClickLogin(s, res, ok) ==
    /\ pc[s] = "idle"
    /\ ~PastWall(s)
    /\ event' = [event EXCEPT ![s] = "login"]
    /\ session_state' = [session_state EXCEPT
            ![s] = LoginState(CallbackState(session_state[s], query_params[s], res))]
    /\ query_params' = [query_params EXCEPT ![s] = None]
    /\ is_logged_in' = [is_logged_in EXCEPT ![s] = ok]
    /\ messages' = [messages EXCEPT ![s] = {}]
    /\ request' = [request EXCEPT ![s] = NoSubmit]
    /\ calls' = [calls EXCEPT ![s] = CallbackCalls(session_state[s], query_params[s], res)]
    /\ uploads' = [uploads EXCEPT ![s] = <<>>]
    /\ UNCHANGED <<pc, pending, creds, autogenerate_code_verifier>>

LogoutKeepsState(ss) == ss

\* what st.logout() leaves of the session: the redirect opens a new one
LogoutState(ss) == EmptyState

\* lines 159-160, "Logout" clicked: lines 28-58 run first, then st.logout().
ClickLogout(s, res) ==
    /\ pc[s] = "idle"
    /\ PastWall(s)
    /\ event' = [event EXCEPT ![s] = "logout"]
    /\ session_state' = [session_state EXCEPT
            ![s] = LogoutState(CallbackState(session_state[s], query_params[s], res))]
    /\ query_params' = [query_params EXCEPT ![s] = None]
    /\ is_logged_in' = [is_logged_in EXCEPT ![s] = FALSE]
    /\ messages' = [messages EXCEPT ![s] = {}]
    /\ request' = [request EXCEPT ![s] = NoSubmit]
    /\ calls' = [calls EXCEPT ![s] = CallbackCalls(session_state[s], query_params[s], res)]
    /\ uploads' = [uploads EXCEPT ![s] = <<>>]
    /\ UNCHANGED <<pc, pending, creds, autogenerate_code_verifier>>

\* lines 175-182, the form submitted with the values req: lines 28-58 run
\* first; an empty title ends the run at line 180, any other starts the uploads.
Submit(s, res, req) ==
    /\ pc[s] = "idle"
    /\ PastWall(s)
    /\ event' = [event EXCEPT ![s] = "submit"]
    /\ session_state' = [session_state EXCEPT
            ![s] = CallbackState(session_state[s], query_params[s], res)]
    /\ query_params' = [query_params EXCEPT ![s] = CallbackQuery(query_params[s], res)]
    /\ request' = [request EXCEPT ![s] = req]
    /\ calls' = [calls EXCEPT ![s] = CallbackCalls(session_state[s], query_params[s], res)]
    /\ IF TitleOk(req)
         THEN /\ messages' = [messages EXCEPT ![s] = CallbackMessages(query_params[s], res)]
              /\ pending' = [pending EXCEPT ![s] = Artifacts(req)]
              /\ pc' = [pc EXCEPT ![s] = "get_service"]
         ELSE /\ messages' = [messages EXCEPT ![s] =
                     CallbackMessages(query_params[s], res)
                         \cup {<<"Error: Please provide a title.", "">>}]
              /\ UNCHANGED <<pending, pc>>
    /\ uploads' = [uploads EXCEPT ![s] = <<>>]
    /\ UNCHANGED <<is_logged_in, creds, autogenerate_code_verifier>>

(* ---------------- upload_to_drive (lines 120-144) ---------------------- *)

\* The upload of the artifact at the head of pending[s] is over, with the
\* messages msgs on the page: the next upload, or lines 194-195.
Advance(s, rest, msgs) ==
    /\ pending' = [pending EXCEPT ![s] = rest]
    /\ creds' = [creds EXCEPT ![s] = NoCreds]
    /\ IF rest = <<>>
         THEN /\ pc' = [pc EXCEPT ![s] = "idle"]
              /\ messages' = [messages EXCEPT ![s] =
                     msgs \cup {<<"Successfully uploaded", request[s].title>>}]
         ELSE /\ pc' = [pc EXCEPT ![s] = "get_service"]
              /\ messages' = [messages EXCEPT ![s] = msgs]

\* lines 120-123: upload_to_drive is called for the next artifact and calls
\* get_gdrive_service(); res is what creds.refresh does.
GetService(s, res) ==
    /\ pc[s] = "get_service"
    /\ LET art == Head(pending[s])
           c0 == BuildCreds
       IN /\ uploads' = [uploads EXCEPT ![s] = Append(@, UploadArgs(request[s], art))]
          /\ IF NeedsRefresh(c0)
            THEN /\ calls' = [calls EXCEPT ![s] = Append(@, Call("refresh", art, c0, res))]
                 /\ IF res = "ok"
                      THEN /\ creds' = [creds EXCEPT ![s] = Refreshed(c0, s, art)]
                           /\ pc' = [pc EXCEPT ![s] = "create"]
                           /\ UNCHANGED <<pending, messages>>
                      ELSE Advance(s, AfterFailure(Tail(pending[s])),
                                   messages[s] \cup {<<"Upload failed", res>>})
            ELSE /\ creds' = [creds EXCEPT ![s] = c0]
                 /\ pc' = [pc EXCEPT ![s] = "create"]
                 /\ UNCHANGED <<calls, pending, messages>>
    /\ UNCHANGED <<query_params, session_state, is_logged_in, event, request,
                   autogenerate_code_verifier>>

\* lines 124-141: files().create(...).execute() with the service's credentials
CreateFile(s, res) ==
    /\ pc[s] = "create"
    /\ LET art == Head(pending[s])
       IN /\ calls' = [calls EXCEPT ![s] = Append(@, Call("create", art, creds[s], res))]
          /\ IF res = "ok"
               THEN Advance(s, Tail(pending[s]), messages[s])
               ELSE Advance(s, AfterFailure(Tail(pending[s])),
                            messages[s] \cup {<<"Upload failed", res>>})
    /\ UNCHANGED <<query_params, session_state, is_logged_in, event, request,
                   uploads, autogenerate_code_verifier>>

\* Everything one browser session does.
Run(s) ==
    \/ \E q \in Codes \cup {None}, res \in ExchangeResults : PageLoad(s, q, res)
    \/ \E res \in ExchangeResults : Rerun(s, res)
    \/ BackNavigate(s)
    \/ \E res \in ExchangeResults, ok \in BOOLEAN : ClickLogin(s, res, ok)
    \/ \E res \in ExchangeResults : ClickLogout(s, res)
    \/ \E res \in ExchangeResults, req \in Requests : Submit(s, res, req)
    \/ \E res \in {"ok"} \cup RefreshErrors : GetService(s, res)
    \/ \E res \in {"ok"} \cup CreateErrors : CreateFile(s, res)

\* One browser session, with every event it can receive.
Next == \E s \in {"s1"} : Run(s)

Spec == Init /\ [][Next]_vars

\* Every session of the server, each in a script thread of its own.
ServerNext == \E s \in Sessions : Run(s)

Server == Init /\ [][ServerNext]_vars

\* Two logged-in sessions (each came through ClickLogin) that submit the form
\* while the other's submission is running.
ConcurrentInit ==
    /\ query_params = [s \in Sessions |-> None]
    /\ session_state = [s \in Sessions |-> EmptyState]
    /\ is_logged_in = [s \in Sessions |-> TRUE]
    /\ pc = [s \in Sessions |-> "idle"]
    /\ event = [s \in Sessions |-> "login"]
    /\ request = [s \in Sessions |-> NoSubmit]
    /\ pending = [s \in Sessions |-> <<>>]
    /\ creds = [s \in Sessions |-> NoCreds]
    /\ calls = [s \in Sessions |-> <<>>]
    /\ messages = [s \in Sessions |-> {}]
    /\ uploads = [s \in Sessions |-> <<>>]
    /\ autogenerate_code_verifier \in BOOLEAN

\* the forms the two sessions submit
ConcurrentRequests ==
    {r \in Requests : r.category = "Finance" /\ r.details = "" /\ r.file.name # "scan.png"}

ConcurrentNext ==
    \E s \in Sessions :
        \/ \E res \in ExchangeResults, req \in ConcurrentRequests : Submit(s, res, req)
        \/ \E res \in {"ok"} \cup RefreshErrors : GetService(s, res)
        \/ \E res \in {"ok"} \cup CreateErrors : CreateFile(s, res)

Concurrent == ConcurrentInit /\ [][ConcurrentNext]_vars

(* ------------------------- reading the state -------------------------- *)

Range(f) == {f[i] : i \in DOMAIN f}

Results == {"ok"} \cup ExchangeErrors

HasCredentials(s) == HasKey(session_state[s], "credentials")

\* the calls of upload_to_drive in the log: positions, artifacts, failures
UploadCalls(s) == {i \in DOMAIN calls[s] : calls[s][i].op \in {"refresh", "create"}}

Attempted(s) == {calls[s][i].for : i \in UploadCalls(s)}

FailedArtifacts(s) == {calls[s][i].for : i \in {j \in UploadCalls(s) : calls[s][j].res # "ok"}}

\* line 194
SuccessDeclared(s) == \E t \in Titles : <<"Successfully uploaded", t>> \in messages[s]

\* line 48
LoginFailedShown(s) == \E e \in ExchangeErrors : <<"Login failed", e>> \in messages[s]

\* the latest run of s was a submission that got past line 179
Submitted(s) == request[s].submit /\ TitleOk(request[s])

(* ------------------------------ claims -------------------------------- *)

\* C1: in every reachable state a session holds stored credentials
\* (st.session_state["credentials"]) if and only if it is AUTHENTICATED.
C1_CredentialsIffAuthenticated ==
    \A s \in Sessions : HasCredentials(s) <=> State(s) = "AUTHENTICATED"

\* the URL carries the code this authenticated session has exchanged already
AlreadyExchanged(s) ==
    /\ query_params[s] # None
    /\ State(s) = "AUTHENTICATED"
    /\ HasCredentials(s)
    /\ session_state[s]["google_auth_code"] = query_params[s]

\* C2: a run that sees again the code an AUTHENTICATED session has exchanged
\* issues no token-endpoint exchange and leaves the session state unchanged.
C2_RedirectIdempotent ==
    [][\A s \in Sessions, res \in Results :
          (AlreadyExchanged(s) /\ Rerun(s, res))
              => (calls'[s] = <<>> /\ session_state'[s] = session_state[s])]_vars

\* C3: a failed exchange leaves the session ANONYMOUS with nothing stored and
\* shows the login-failed error with the provider's message; the code whose
\* exchange failed is not exchanged again by a later run of the session that
\* is no new login (a rerun, a submit, a logout).
C3_FailedExchangeNotRetried ==
    [][\A s \in Sessions, res \in Results :
          /\ \A q \in Codes :
                (res # "ok" /\ PageLoad(s, q, res))
                    => /\ session_state'[s] = EmptyState
                       /\ State(s)' = State(s)
                       /\ <<"Login failed", res>> \in messages'[s]
          /\ (/\ LoginFailedShown(s)
              /\ query_params[s] # None
              /\ \/ Rerun(s, res)
                 \/ ClickLogout(s, res)
                 \/ \E req \in Requests : Submit(s, res, req))
                => \A i \in DOMAIN calls'[s] :
                      ~(calls'[s][i].op = "exchange" /\ calls'[s][i].for = query_params[s])]_vars

\* C4: a submission is reported as a success only if every upload it
\* attempted succeeded; after a failed upload success is not declared.
C4_SuccessOnlyIfAllUploaded ==
    \A s \in Sessions : SuccessDeclared(s) => FailedArtifacts(s) = {}

\* C5: whatever the outcome of the uploads before it, every artifact of the
\* request is attempted: at any point of a submission the artifacts attempted
\* and those still to come are all the artifacts of the request, and the run
\* ends only when none is left.
C5_EveryArtifactAttempted ==
    \A s \in Sessions :
        Submitted(s) =>
            /\ Attempted(s) \cup Range(pending[s]) = Range(Artifacts(request[s]))
            /\ (pc[s] = "idle" => Attempted(s) = Range(Artifacts(request[s])))

\* all three artifacts attempted although the first two uploads failed, one
\* of them while obtaining the credentials
C5_Witness ==
    \E s \in Sessions :
        /\ pc[s] = "idle" /\ Submitted(s)
        /\ Attempted(s) = {"notes", "file", "photo"}
        /\ FailedArtifacts(s) = {"notes", "file"}
        /\ \E i \in UploadCalls(s) : calls[s][i].op = "refresh" /\ calls[s][i].res # "ok"

\* C6: a submission with an empty title is rejected with the validation
\* error and attempts no credential refresh and no create-file upload.
C6_EmptyTitleRejected ==
    \A s \in Sessions :
        (request[s].submit /\ request[s].title = "") =>
            /\ UploadCalls(s) = {}
            /\ pc[s] = "idle" /\ pending[s] = <<>>
            /\ <<"Error: Please provide a title.", "">> \in messages[s]
            /\ ~SuccessDeclared(s)

C6_Witness ==
    \E s \in Sessions :
        /\ request[s].submit /\ request[s].title = ""
        /\ request[s].uploaded_file /\ request[s].camera_photo

\* C7: two overlapping requests for valid production credentials make one
\* token-endpoint refresh call, and both callers hold the same token.
C7_RefreshSerialized ==
    (pc["s1"] = "create" /\ pc["s2"] = "create") =>
        /\ creds["s1"].token = creds["s2"].token
        /\ ~(calls["s1"][Len(calls["s1"])].op = "refresh"
                /\ calls["s2"][Len(calls["s2"])].op = "refresh")

\* C8: the credentials handed to an upload have a token and are not expired:
\* the create-file call is issued only after a refresh for that artifact has
\* completed, with the token that refresh returned.
C8_ValidCredentialsForUpload ==
    \A s \in Sessions :
        /\ pc[s] = "create" => (creds[s].token # NoToken /\ ~creds[s].expired)
        /\ \A i \in DOMAIN calls[s] :
              calls[s][i].op = "create" =>
                  /\ calls[s][i].token # NoToken
                  /\ i > 1
                  /\ calls[s][i - 1].op = "refresh"
                  /\ calls[s][i - 1].for = calls[s][i].for
                  /\ calls[s][i - 1].res = "ok"

C8_Witness ==
    \E s \in Sessions :
        /\ pc[s] = "create"
        /\ \E i \in DOMAIN calls[s] : calls[s][i].op = "create"

\* C9: every refresh and every create-file call uses the production bundle of
\* [google_auth], never the credentials of the code exchange, and no step of
\* an upload changes the session state.
C9_ProductionBundleOnly ==
    /\ [](\A s \in Sessions :
            /\ creds[s] # NoCreds => creds[s].src = "google_auth"
            /\ \A i \in UploadCalls(s) :
                  /\ calls[s][i].src = "google_auth"
                  /\ HasCredentials(s) =>
                        calls[s][i].token # session_state[s]["credentials"].token)
    /\ [][\A s \in Sessions :
            (\/ \E res \in {"ok"} \cup RefreshErrors : GetService(s, res)
             \/ \E res \in {"ok"} \cup CreateErrors : CreateFile(s, res))
                => session_state' = session_state]_vars

C9_Witness ==
    \E s \in Sessions :
        /\ HasCredentials(s)
        /\ \E i \in UploadCalls(s) : calls[s][i].op = "create" /\ calls[s][i].res = "ok"

UploadsOf(s, k) == {i \in DOMAIN uploads[s] : uploads[s][i].kind = k}

\* C11: the artifacts of a submission are a function of the request: one
\* notes artifact, always, named {document_date}_{category}_{title}_notes.txt
\* with mime text/plain; one file artifact if and only if a file is attached,
\* with its own name and the mime type the caller gave; one photo artifact if
\* and only if a photo was taken, named {document_date}_{title}_photo.jpg with
\* mime image/jpeg; and no other artifact.
C11_ArtifactDerivation ==
    \A s \in Sessions :
        LET r == request[s]
            u == uploads[s]
        IN /\ ~Submitted(s) => u = <<>>
           /\ (Submitted(s) /\ pc[s] = "idle") =>
                /\ Cardinality(UploadsOf(s, "notes")) = 1
                /\ \A i \in UploadsOf(s, "notes") :
                      /\ u[i].file_name =
                            <<r.entry_date, "_", r.category, "_", r.title, "_notes.txt">>
                      /\ u[i].mime_type = "text/plain"
                      /\ u[i].file_content = <<"utf-8", r.details>>
                /\ Cardinality(UploadsOf(s, "file")) = IF r.uploaded_file THEN 1 ELSE 0
                /\ \A i \in UploadsOf(s, "file") :
                      /\ u[i].file_name = <<r.file.name>>
                      /\ u[i].mime_type = r.file.type
                /\ Cardinality(UploadsOf(s, "photo")) = IF r.camera_photo THEN 1 ELSE 0
                /\ \A i \in UploadsOf(s, "photo") :
                      /\ u[i].file_name = <<r.entry_date, "_", r.title, "_photo.jpg">>
                      /\ u[i].mime_type = "image/jpeg"
                /\ DOMAIN u = UploadsOf(s, "notes") \cup UploadsOf(s, "file")
                                  \cup UploadsOf(s, "photo")

\* a finished submission with empty details, a png attached and a photo
C11_Witness ==
    \E s \in Sessions :
        /\ Submitted(s) /\ pc[s] = "idle"
        /\ request[s].details = "" /\ request[s].category = "Other"
        /\ request[s].file.type = "image/png" /\ request[s].camera_photo
        /\ Len(uploads[s]) = 3

\* a run of s that is no arrival of a redirect from the provider
LaterRun(s, res) ==
    \/ Rerun(s, res)
    \/ \E ok \in BOOLEAN : ClickLogin(s, res, ok)
    \/ ClickLogout(s, res)
    \/ \E req \in Requests : Submit(s, res, req)

\* C12: a run whose exchange succeeds leaves the session AUTHENTICATED with
\* the token bundle stored and no code in the URL, and no later run of a
\* session that has exchanged its code sees a code again, unless a new
\* redirect from the provider arrives.
C12_CodeStrippedAfterExchange ==
    [][\A s \in Sessions :
          /\ \A q \in Codes :
                PageLoad(s, q, "ok") =>
                    /\ State(s)' = "AUTHENTICATED"
                    /\ HasCredentials(s)'
                    /\ query_params'[s] = None
          /\ \A res \in Results :
                (HasKey(session_state[s], "google_auth_code") /\ LaterRun(s, res))
                    => query_params[s] = None]_vars

\* a refresh of the production credentials failed in the latest run of s
RefreshFailed(s) ==
    \E i \in UploadCalls(s) : calls[s][i].op = "refresh" /\ calls[s][i].res # "ok"

\* C13: when the refresh of the credentials is rejected, the failure is not
\* reported as an upload failure and the run leaves the session ANONYMOUS.
C13_RefreshFailureForcesLogin ==
    \A s \in Sessions :
        (RefreshFailed(s) /\ pc[s] = "idle") =>
            /\ State(s) = "ANONYMOUS"
            /\ \A e \in RefreshErrors : <<"Upload failed", e>> \notin messages[s]

\* the create-file calls of the latest run made for the artifact kind k
CreateCallsFor(s, k) ==
    {i \in DOMAIN calls[s] : calls[s][i].op = "create" /\ calls[s][i].for = k}

\* C14: within one submission the create-file operation is called at most
\* once per artifact, at most three times in all, whether it succeeds or
\* fails; uploading starts again only with a new submit by the user.
C14_NoAutomaticRetry ==
    /\ [](\A s \in Sessions :
            /\ \A k \in {"notes", "file", "photo"} : Cardinality(CreateCallsFor(s, k)) <= 1
            /\ Cardinality({i \in DOMAIN calls[s] : calls[s][i].op = "create"}) <= 3
            /\ \A i \in DOMAIN calls[s] :
                  calls[s][i].op = "create" => calls[s][i].for \in {"notes", "file", "photo"})
    /\ [][\A s \in Sessions :
            (pc[s] = "idle" /\ pc'[s] # "idle") =>
                /\ event'[s] = "submit" /\ request'[s].submit
                /\ \A i \in DOMAIN calls'[s] : calls'[s][i].op = "exchange"]_vars

\* a finished submission of three artifacts in which a create-file call failed
C14_Witness ==
    \E s \in Sessions :
        /\ pc[s] = "idle" /\ Submitted(s)
        /\ Cardinality({i \in DOMAIN calls[s] : calls[s][i].op = "create"}) = 3
        /\ \E i \in DOMAIN calls[s] :
              calls[s][i].op = "create" /\ calls[s][i].for = "notes" /\ calls[s][i].res # "ok"

C16_ProofKeyDisabled ==
    \A s \in Sessions :
        ~HasCredentials(s) =>
            /\ ~CodeChallenge
            /\ CodeVerifier = None => "ok" \in ExchangeResults

\* the artifact kinds in the order of lines 185, 189, 192
KindsInOrder(kinds) ==
    \A i, j \in DOMAIN kinds :
        i < j => <<kinds[i], kinds[j]>> \in
                    {<<"notes", "file">>, <<"notes", "photo">>, <<"file", "photo">>}

\* the upload of the artifact kind k has returned: its create-file call is in
\* the log, or the refresh for it failed
Returned(s, k) ==
    \E i \in UploadCalls(s) :
        /\ calls[s][i].for = k
        /\ calls[s][i].op = "create" \/ calls[s][i].res # "ok"

\* C17: the uploads of a submission are made one at a time in the order
\* notes, file, photo; an upload starts only when every upload before it has
\* returned, and the result is reported only when all have returned.
C17_SequentialUploads ==
    \A s \in Sessions :
        LET u == uploads[s]
        IN /\ KindsInOrder([i \in DOMAIN u |-> u[i].kind])
           /\ \A i, j \in UploadCalls(s) :
                 (i < j /\ calls[s][i].for # calls[s][j].for) =>
                     KindsInOrder(<<calls[s][i].for, calls[s][j].for>>)
           /\ \A i \in DOMAIN u : i < Len(u) => Returned(s, u[i].kind)
           /\ \A i \in DOMAIN u :
                 (i = Len(u) /\ ~Returned(s, u[i].kind)) =>
                     (pc[s] = "create" /\ Head(pending[s]) = u[i].kind)
           /\ SuccessDeclared(s) =>
                 /\ pc[s] = "idle" /\ pending[s] = <<>>
                 /\ \A k \in Range(Artifacts(request[s])) : Returned(s, k)

\* the photo upload is running after the notes and the file uploads returned,
\* one of them with a failure
C17_Witness ==
    \E s \in Sessions :
        /\ pc[s] = "create" /\ Head(pending[s]) = "photo"
        /\ Len(uploads[s]) = 3
        /\ FailedArtifacts(s) # {}

\* C18: a run of a session whose user is not logged in renders no form and
\* attempts no upload and no refresh of the production credentials, whatever
\* submit state or stored credentials the session has.
C18_AuthenticationWall ==
    /\ [](\A s \in Sessions :
            ~is_logged_in[s] =>
                /\ UploadCalls(s) = {} /\ uploads[s] = <<>>
                /\ pc[s] = "idle" /\ pending[s] = <<>>
                /\ ~request[s].submit)
    /\ [][\A s \in Sessions :
            (~is_logged_in[s] /\ ~is_logged_in'[s]) =>
                /\ request'[s] = request[s]
                /\ \A i \in DOMAIN calls'[s] : calls'[s][i].op = "exchange"]_vars

\* a user who is not logged in, in a session that holds stored credentials
C18_Witness ==
    \E s \in Sessions :
        /\ ~is_logged_in[s]
        /\ HasCredentials(s)
        /\ event[s] = "rerun"

\* C19: every upload attempt builds a bundle of its own with no access token
\* and refreshes it before the create-file call: the refresh calls of a
\* submission are as many as the artifacts attempted, each is made with no
\* token and is followed at once by the create-file call of its artifact alone,
\* and no two create-file calls use the same bundle.
C19_FreshBundlePerUpload ==
    \A s \in Sessions :
        LET c == calls[s]
            refreshes == {i \in DOMAIN c : c[i].op = "refresh"}
            creates == {i \in DOMAIN c : c[i].op = "create"}
        IN /\ Cardinality(refreshes) = Len(uploads[s])
           /\ Cardinality(refreshes) = Cardinality(Attempted(s))
           /\ \A i \in refreshes :
                 /\ c[i].token = NoToken
                 /\ c[i].for = uploads[s][Cardinality({j \in refreshes : j <= i})].kind
                 /\ (c[i].res = "ok" /\ i < Len(c)) =>
                       (c[i + 1].op = "create" /\ c[i + 1].for = c[i].for)
                 /\ (c[i].res = "ok" /\ i = Len(c)) =>
                       (pc[s] = "create" /\ Head(pending[s]) = c[i].for)
                 /\ (c[i].res # "ok" /\ i < Len(c)) => c[i + 1].op = "refresh"
           /\ \A i \in creates :
                 /\ i - 1 \in refreshes
                 /\ c[i].token = <<c[i - 1].src, s, c[i - 1].for>>
           /\ \A i, j \in creates : i # j => c[i].token # c[j].token

\* three uploads attempted in one submission, each with its own refresh
C19_Witness ==
    \E s \in Sessions :
        /\ pc[s] = "idle" /\ Submitted(s)
        /\ Cardinality({i \in DOMAIN calls[s] : calls[s][i].op = "refresh"}) = 3
        /\ Cardinality({i \in DOMAIN calls[s] : calls[s][i].op = "create"}) >= 2

====
